---------------------------- MODULE Spec2Model ----------------------------
(***************************************************************************)
(* Model of the Bitdefender MSP client (bitdefender_msp/client.py and       *)
(* bitdefender_msp/exceptions.py).                                          *)
(*                                                                          *)
(* A client owns an API key and a persistent HTTP session.  Every endpoint  *)
(* method builds a path and a payload, hands one request to the session     *)
(* through the shared dispatch routine _request, and returns the parsed     *)
(* body or raises.  The client is synchronous, so each endpoint call is one *)
(* atomic action; the answer of the transport is the nondeterministic       *)
(* input of the action.                                                     *)
(*                                                                          *)
(* Python values are tagged tuples, so that None, "", a string, a boolean   *)
(* and an integer are all distinct and comparable: <<"None">>,              *)
(* <<"str", s>>, <<"bool", "True">>, <<"int", n>>.  A Python dict is a      *)
(* function from its keys to Python values.  An arbitrary parsed JSON       *)
(* value is a record [type, val] whose type is the Python type name.        *)
(***************************************************************************)
EXTENDS Integers, Sequences, FiniteSets, TLC

VARIABLES
    key,        \* the api_key argument the client was constructed with
    api_key,    \* self.api_key
    session,    \* self.session: [headers |-> dict]
    calls,      \* number of endpoint calls made on this client so far
    requests,   \* number of requests handed to the transport so far
    errors,     \* number of endpoint calls so far that ended by raising
    call,       \* the last endpoint call: [name, args]
    sent,       \* the requests the last call handed to the transport
    received,   \* what the transport answered to the last call
    outcome     \* how the last call ended: a returned value or a raised error

vars == <<key, api_key, session, calls, requests, errors, call, sent, received, outcome>>

---------------------------------------------------------------------------
(* Bounds of the model *)

MaxCalls == 2

---------------------------------------------------------------------------
(* Python values *)

None == <<"None">>
True == <<"bool", "True">>
False == <<"bool", "False">>
PyStr(s) == <<"str", s>>
PyInt(n) == <<"int", n>>

\* Python's truth test, as in `if email:` : None, "", False and 0 are falsy.
Truthy(v) ==
    CASE v[1] = "None" -> FALSE
      [] v[1] = "str"  -> v[2] # ""
      [] v[1] = "bool" -> v = True
      [] v[1] = "int"  -> v[2] # 0

EmptyDict == [k \in {} |-> None]

\* d[k] = v
SetItem(d, k, v) == (k :> v) @@ d

\* d.get(k, default)
Get(d, k, default) == IF k \in DOMAIN d THEN d[k] ELSE default

\* A parsed JSON value: a mapping, or a value that is not a mapping.
Dict(d) == [type |-> "dict", val |-> d]
List == [type |-> "list", val |-> EmptyDict]

---------------------------------------------------------------------------
(* exceptions.py and the other ways a call can end *)

NoValue == [type |-> "none", val |-> EmptyDict]

\* return data
Return(data) ==
    [kind |-> "return", exc |-> "", value |-> data,
     message |-> None, error_code |-> None, status_code |-> None]

\* raise of an exception that carries no fields of its own
Raise(exc) ==
    [kind |-> "raise", exc |-> exc, value |-> NoValue,
     message |-> None, error_code |-> None, status_code |-> None]

\* BitdefenderMSPError(message, error_code, status_code), raised
BitdefenderMSPError(message, error_code, status_code) ==
    [kind |-> "raise", exc |-> "BitdefenderMSPError", value |-> NoValue,
     message |-> message, error_code |-> error_code, status_code |-> status_code]

---------------------------------------------------------------------------
(* The transport: what self.session.request can answer *)

\* Exceptions the transport raises instead of returning a response
\* (DNS failure and connection refused, TLS failure).
TransportFailures == {"ConnectionError", "SSLError"}

Statuses == {200, 404}

\* response.ok, as the transport reports it: no client or server error status
Ok(status_code) == status_code < 400

MessageValues == {PyStr("not found")}
CodeValues == {PyInt(42)}

\* The JSON objects a response body can hold: with or without message and code.
JsonObjects ==
    {EmptyDict}
    \cup {"message" :> m : m \in MessageValues}
    \cup {"code" :> c : c \in CodeValues}
    \cup {("message" :> m) @@ ("code" :> c) : m \in MessageValues, c \in CodeValues}

\* A response body as it arrives: a JSON object with its members, a JSON value
\* that is no object (an array), text that is not JSON, or nothing at all.
Body(format, members) == [format |-> format, members |-> members]

Bodies ==
    {Body("object", d) : d \in JsonObjects}
    \cup {Body("array", EmptyDict), Body("text", EmptyDict), Body("none", EmptyDict)}

\* Everything self.session.request(method, url, **kwargs) can do: return a
\* response with a status and a body, or raise a transport failure.
Responses ==
    {[exc |-> "", status_code |-> s, ok |-> Ok(s), body |-> b] :
        s \in Statuses, b \in Bodies}
    \cup {[exc |-> e, status_code |-> 0, ok |-> FALSE, body |-> Body("none", EmptyDict)] :
        e \in TransportFailures}

\* response.json() raises ValueError: the body is not valid JSON or is absent
JsonRaisesValueError(body) == body.format \in {"text", "none"}

\* response.json() when it returns: a dict for a JSON object, a list for an array
Json(body) == IF body.format = "object" THEN Dict(body.members) ELSE List

---------------------------------------------------------------------------
(* client.py: construction and dispatch *)

BASE_URL == "https://msp.bitdefender.com"

\* __init__ with the authorization scheme left out of the header
NewSessionBareKey(k) ==
    [headers |-> ("Authorization" :> k)
                 @@ ("Content-Type" :> "application/json")
                 @@ ("Accept" :> "application/json")]

\* __init__: the session and its default headers
NewSession(k) ==
    [headers |-> ("Authorization" :> ("ApiKey " \o k))
                 @@ ("Content-Type" :> "application/json")
                 @@ ("Accept" :> "application/json")]

\* The request self.session.request hands to the transport: the session's
\* default headers go with every request; no endpoint overrides a header.
SessionRequest(s, method, url, kwargs) ==
    [method |-> method, url |-> url, kwargs |-> kwargs, headers |-> s.headers]

\* _request with the transport call inside a handler that turns a transport
\* failure into an API error
RequestCatchingTransport(s, method, endpoint, kwargs, resp) ==
    LET url == BASE_URL \o endpoint
        req == SessionRequest(s, method, url, kwargs)
        data == IF JsonRaisesValueError(resp.body)
                THEN Dict(EmptyDict)
                ELSE Json(resp.body)
    IN  [sent |-> <<req>>,
         received |-> <<resp>>,
         outcome |->
            IF resp.exc # "" \/ ~resp.ok
            THEN IF data.type # "dict"
                 THEN Raise("AttributeError")
                 ELSE BitdefenderMSPError(
                          Get(data.val, "message", PyStr("Unknown error")),
                          Get(data.val, "code", PyInt(0)),
                          PyInt(resp.status_code))
            ELSE Return(data)]

\* _request(method, endpoint, **kwargs), when the transport answers resp.
\* The result holds the requests sent, the answer received and the outcome.
Request(s, method, endpoint, kwargs, resp) ==
    LET url == BASE_URL \o endpoint
        req == SessionRequest(s, method, url, kwargs)
        data == IF JsonRaisesValueError(resp.body)
                THEN Dict(EmptyDict)
                ELSE Json(resp.body)
    IN  [sent |-> <<req>>,
         received |-> <<resp>>,
         outcome |->
            IF resp.exc # ""
            THEN Raise(resp.exc)
            ELSE IF ~resp.ok
            THEN IF data.type # "dict"
                 THEN Raise("AttributeError")
                 ELSE BitdefenderMSPError(
                          Get(data.val, "message", PyStr("Unknown error")),
                          Get(data.val, "code", PyInt(0)),
                          PyInt(resp.status_code))
            ELSE Return(data)]

\* An endpoint method that raises before it reaches _request
RaiseLocally(exc) ==
    [sent |-> <<>>, received |-> <<>>, outcome |-> Raise(exc)]

---------------------------------------------------------------------------
(* client.py: the endpoint methods.  s is the session, resp the answer of   *)
(* the transport if the method reaches it.                                  *)

list_subscribers(s, page, limit, filters, resp) ==
    LET params == filters @@ ("page" :> page) @@ ("limit" :> limit)
    IN  Request(s, "GET", "/v1/subscribers", "params" :> params, resp)

\* `is not None` in place of the truth test
IsNotNone(v) == v # None

\* create_subscriber that keeps every field that is not None, empty or not
create_subscriber_not_none(s, email, phone, username, external_subscriber_id, lang, resp) ==
    LET d1 == IF IsNotNone(email) THEN SetItem(EmptyDict, "email", email) ELSE EmptyDict
        d2 == IF IsNotNone(phone) THEN SetItem(d1, "phone", phone) ELSE d1
        d3 == IF IsNotNone(username) THEN SetItem(d2, "username", username) ELSE d2
        d4 == IF IsNotNone(external_subscriber_id)
              THEN SetItem(d3, "external_subscriber_id", external_subscriber_id)
              ELSE d3
        data == IF IsNotNone(lang) THEN SetItem(d4, "lang", lang) ELSE d4
    IN  IF data = EmptyDict
        THEN RaiseLocally("ValueError")
        ELSE Request(s, "POST", "/v1/subscribers", "json" :> data, resp)

create_subscriber(s, email, phone, username, external_subscriber_id, lang, resp) ==
    LET d1 == IF Truthy(email) THEN SetItem(EmptyDict, "email", email) ELSE EmptyDict
        d2 == IF Truthy(phone) THEN SetItem(d1, "phone", phone) ELSE d1
        d3 == IF Truthy(username) THEN SetItem(d2, "username", username) ELSE d2
        d4 == IF Truthy(external_subscriber_id)
              THEN SetItem(d3, "external_subscriber_id", external_subscriber_id)
              ELSE d3
        data == IF Truthy(lang) THEN SetItem(d4, "lang", lang) ELSE d4
    IN  IF data = EmptyDict
        THEN RaiseLocally("ValueError")
        ELSE Request(s, "POST", "/v1/subscribers", "json" :> data, resp)

get_subscriber(s, subscriber_id, resp) ==
    Request(s, "GET", "/v1/subscribers/" \o subscriber_id, EmptyDict, resp)

delete_subscriber(s, subscriber_id, resp) ==
    Request(s, "DELETE", "/v1/subscribers/" \o subscriber_id, EmptyDict, resp)

unmanage_subscriber(s, subscriber_id, resp) ==
    LET data == "unmanage" :> True
    IN  Request(s, "PATCH", "/v1/subscribers/" \o subscriber_id, "json" :> data, resp)

\* add_subscription that always sends the trial flag
add_subscription_always_trial(s, subscriber_id, product_id, trial, external_subscription_id, reservation_id, resp) ==
    LET d1 == "product_id" :> product_id
        d2 == SetItem(d1, "trial", trial)
        d3 == IF Truthy(external_subscription_id)
              THEN SetItem(d2, "external_subscription_id", external_subscription_id)
              ELSE d2
        data == IF Truthy(reservation_id)
                THEN SetItem(d3, "reservation_id", reservation_id)
                ELSE d3
    IN  Request(s, "POST", "/v1/subscribers/" \o subscriber_id \o "/subscriptions",
                "json" :> data, resp)

add_subscription(s, subscriber_id, product_id, trial, external_subscription_id, reservation_id, resp) ==
    LET d1 == "product_id" :> product_id
        d2 == IF Truthy(trial) THEN SetItem(d1, "trial", trial) ELSE d1
        d3 == IF Truthy(external_subscription_id)
              THEN SetItem(d2, "external_subscription_id", external_subscription_id)
              ELSE d2
        data == IF Truthy(reservation_id)
                THEN SetItem(d3, "reservation_id", reservation_id)
                ELSE d3
    IN  Request(s, "POST", "/v1/subscribers/" \o subscriber_id \o "/subscriptions",
                "json" :> data, resp)

get_subscription(s, subscriber_id, subscription_id, resp) ==
    Request(s, "GET",
            "/v1/subscribers/" \o subscriber_id \o "/subscriptions/" \o subscription_id,
            EmptyDict, resp)

suspend_subscriptions(s, subscriber_id, suspended, resp) ==
    LET data == "suspended" :> suspended
    IN  Request(s, "PATCH", "/v1/subscribers/" \o subscriber_id \o "/subscriptions",
                "json" :> data, resp)

delete_subscription(s, subscriber_id, subscription_id, resp) ==
    Request(s, "DELETE",
            "/v1/subscribers/" \o subscriber_id \o "/subscriptions/" \o subscription_id,
            EmptyDict, resp)

\* delete_all_subscriptions on the subscriber's own path
delete_all_subscriptions_wrong_path(s, subscriber_id, resp) ==
    Request(s, "DELETE", "/v1/subscribers/" \o subscriber_id, EmptyDict, resp)

delete_all_subscriptions(s, subscriber_id, resp) ==
    Request(s, "DELETE", "/v1/subscribers/" \o subscriber_id \o "/subscriptions",
            EmptyDict, resp)

suspend_subscription(s, subscriber_id, subscription_id, suspended, resp) ==
    LET data == "suspended" :> suspended
    IN  Request(s, "PATCH",
                "/v1/subscribers/" \o subscriber_id \o "/subscriptions/" \o subscription_id,
                "json" :> data, resp)

\* convert_trial_subscription that sends any product_id that is not None
convert_trial_subscription_not_none(s, subscriber_id, subscription_id, product_id, resp) ==
    LET data == "convert" :> (IF IsNotNone(product_id) THEN product_id ELSE True)
    IN  Request(s, "PATCH",
                "/v1/subscribers/" \o subscriber_id \o "/subscriptions/" \o subscription_id,
                "json" :> data, resp)

convert_trial_subscription(s, subscriber_id, subscription_id, product_id, resp) ==
    LET data == "convert" :> (IF Truthy(product_id) THEN product_id ELSE True)
    IN  Request(s, "PATCH",
                "/v1/subscribers/" \o subscriber_id \o "/subscriptions/" \o subscription_id,
                "json" :> data, resp)

replace_subscription(s, subscriber_id, subscription_id, product_id, resp) ==
    LET data == "product_id" :> product_id
    IN  Request(s, "PUT",
                "/v1/subscribers/" \o subscriber_id \o "/subscriptions/" \o subscription_id,
                "json" :> data, resp)

---------------------------------------------------------------------------
(* The arguments callers pass *)

ApiKeys == {"k1", "k2"}
SubscriberIds == {"s1"}
SubscriptionIds == {"n1"}
ProductIds == {PyStr("p1")}
Bools == {True, False}

\* An Optional[str] argument: left out (None), empty, or a string of S
OptionalStr(S) == {None, PyStr("")} \cup {PyStr(x) : x \in S}

\* The same with fewer cases: left out or given, empty or given
AbsentOr(S) == {None} \cup {PyStr(x) : x \in S}
EmptyOr(S) == {PyStr("")} \cup {PyStr(x) : x \in S}

Pages == {PyInt(1), PyInt(2)}
Limits == {PyInt(20)}
Filters == {EmptyDict, "state" :> PyStr("active")}

---------------------------------------------------------------------------
(* The state machine: construction, then endpoint calls one after another *)

Init ==
    /\ key \in ApiKeys
    /\ api_key = key
    /\ session = NewSession(api_key)
    /\ calls = 0
    /\ requests = 0
    /\ errors = 0
    /\ call = [name |-> "__init__", args |-> "api_key" :> PyStr(api_key)]
    /\ sent = <<>>
    /\ received = <<>>
    /\ outcome = Return(NoValue)

\* One endpoint call, from its entry to its return or raise.  No method
\* assigns self.api_key or self.session.
Do(name, args, r) ==
    /\ calls < MaxCalls
    /\ calls' = calls + 1
    /\ requests' = requests + Len(r.sent)
    /\ errors' = errors + (IF r.outcome.kind = "raise" THEN 1 ELSE 0)
    /\ call' = [name |-> name, args |-> args]
    /\ sent' = r.sent
    /\ received' = r.received
    /\ outcome' = r.outcome
    /\ UNCHANGED <<key, api_key, session>>

ListSubscribers ==
    \E page \in Pages, limit \in Limits, filters \in Filters, resp \in Responses :
        Do("list_subscribers",
           ("page" :> page) @@ ("limit" :> limit) @@ ("filters" :> Dict(filters)),
           list_subscribers(session, page, limit, filters, resp))

CreateSubscriber ==
    \E email \in OptionalStr({"a@x"}), phone \in AbsentOr({"555"}),
       username \in EmptyOr({"u"}), external_subscriber_id \in AbsentOr({"e1"}),
       lang \in AbsentOr({"en_US"}), resp \in Responses :
        Do("create_subscriber",
           ("email" :> email) @@ ("phone" :> phone) @@ ("username" :> username)
               @@ ("external_subscriber_id" :> external_subscriber_id) @@ ("lang" :> lang),
           create_subscriber(session, email, phone, username, external_subscriber_id,
                             lang, resp))

GetSubscriber ==
    \E subscriber_id \in SubscriberIds, resp \in Responses :
        Do("get_subscriber", "subscriber_id" :> PyStr(subscriber_id),
           get_subscriber(session, subscriber_id, resp))

DeleteSubscriber ==
    \E subscriber_id \in SubscriberIds, resp \in Responses :
        Do("delete_subscriber", "subscriber_id" :> PyStr(subscriber_id),
           delete_subscriber(session, subscriber_id, resp))

UnmanageSubscriber ==
    \E subscriber_id \in SubscriberIds, resp \in Responses :
        Do("unmanage_subscriber", "subscriber_id" :> PyStr(subscriber_id),
           unmanage_subscriber(session, subscriber_id, resp))

AddSubscription ==
    \E subscriber_id \in SubscriberIds, product_id \in ProductIds, trial \in Bools,
       external_subscription_id \in OptionalStr({"x1"}),
       reservation_id \in EmptyOr({"r1"}), resp \in Responses :
        Do("add_subscription",
           ("subscriber_id" :> PyStr(subscriber_id)) @@ ("product_id" :> product_id)
               @@ ("trial" :> trial)
               @@ ("external_subscription_id" :> external_subscription_id)
               @@ ("reservation_id" :> reservation_id),
           add_subscription(session, subscriber_id, product_id, trial,
                            external_subscription_id, reservation_id, resp))

GetSubscription ==
    \E subscriber_id \in SubscriberIds, subscription_id \in SubscriptionIds,
       resp \in Responses :
        Do("get_subscription",
           ("subscriber_id" :> PyStr(subscriber_id))
               @@ ("subscription_id" :> PyStr(subscription_id)),
           get_subscription(session, subscriber_id, subscription_id, resp))

SuspendSubscriptions ==
    \E subscriber_id \in SubscriberIds, suspended \in Bools, resp \in Responses :
        Do("suspend_subscriptions",
           ("subscriber_id" :> PyStr(subscriber_id)) @@ ("suspended" :> suspended),
           suspend_subscriptions(session, subscriber_id, suspended, resp))

DeleteSubscription ==
    \E subscriber_id \in SubscriberIds, subscription_id \in SubscriptionIds,
       resp \in Responses :
        Do("delete_subscription",
           ("subscriber_id" :> PyStr(subscriber_id))
               @@ ("subscription_id" :> PyStr(subscription_id)),
           delete_subscription(session, subscriber_id, subscription_id, resp))

DeleteAllSubscriptions ==
    \E subscriber_id \in SubscriberIds, resp \in Responses :
        Do("delete_all_subscriptions", "subscriber_id" :> PyStr(subscriber_id),
           delete_all_subscriptions(session, subscriber_id, resp))

SuspendSubscription ==
    \E subscriber_id \in SubscriberIds, subscription_id \in SubscriptionIds,
       suspended \in Bools, resp \in Responses :
        Do("suspend_subscription",
           ("subscriber_id" :> PyStr(subscriber_id))
               @@ ("subscription_id" :> PyStr(subscription_id))
               @@ ("suspended" :> suspended),
           suspend_subscription(session, subscriber_id, subscription_id, suspended, resp))

ConvertTrialSubscription ==
    \E subscriber_id \in SubscriberIds, subscription_id \in SubscriptionIds,
       product_id \in OptionalStr({"p2"}), resp \in Responses :
        Do("convert_trial_subscription",
           ("subscriber_id" :> PyStr(subscriber_id))
               @@ ("subscription_id" :> PyStr(subscription_id))
               @@ ("product_id" :> product_id),
           convert_trial_subscription(session, subscriber_id, subscription_id,
                                      product_id, resp))

ReplaceSubscription ==
    \E subscriber_id \in SubscriberIds, subscription_id \in SubscriptionIds,
       product_id \in ProductIds, resp \in Responses :
        Do("replace_subscription",
           ("subscriber_id" :> PyStr(subscriber_id))
               @@ ("subscription_id" :> PyStr(subscription_id))
               @@ ("product_id" :> product_id),
           replace_subscription(session, subscriber_id, subscription_id, product_id, resp))

Next ==
    \/ ListSubscribers
    \/ CreateSubscriber
    \/ GetSubscriber
    \/ DeleteSubscriber
    \/ UnmanageSubscriber
    \/ AddSubscription
    \/ GetSubscription
    \/ SuspendSubscriptions
    \/ DeleteSubscription
    \/ DeleteAllSubscriptions
    \/ SuspendSubscription
    \/ ConvertTrialSubscription
    \/ ReplaceSubscription

Spec == Init /\ [][Next]_vars

---------------------------------------------------------------------------
(* Vocabulary of the properties *)

\* An argument that is neither absent (None) nor the empty string
NonEmpty(v) == v # None /\ v # PyStr("")

\* The last call reached the transport; its one request and its JSON payload
Dispatched == sent # <<>>
TheRequest == sent[1]
JsonBody == TheRequest.kwargs["json"]
Called(name) == call.name = name

\* The transport answered the last call with a response (it did not raise)
Answered == received # <<>> /\ received[1].exc = ""
TheResponse == received[1]

\* The mapping a response body parses to: its members when it is a JSON
\* object, the empty mapping when it is not JSON or absent
ParsedMapping(body) == IF body.format = "object" THEN body.members ELSE EmptyDict

IdentityFields == {"email", "phone", "username", "external_subscriber_id"}
SubscriberFields == IdentityFields \cup {"lang"}

---------------------------------------------------------------------------
(* C1 *)

\* C1: whenever the transport answers a dispatched request with a non-ok
\* status, whatever the body is, the call raises BitdefenderMSPError with the
\* body's message (or "Unknown error"), the body's code (or 0) and the HTTP
\* status; it neither returns nor raises another kind of error.
C1_NonOkRaisesApiError ==
    (Answered /\ ~TheResponse.ok) =>
        outcome = BitdefenderMSPError(
                      Get(ParsedMapping(TheResponse.body), "message", PyStr("Unknown error")),
                      Get(ParsedMapping(TheResponse.body), "code", PyInt(0)),
                      PyInt(TheResponse.status_code))

---------------------------------------------------------------------------
(* C2 *)

\* C2: create_subscriber with email, phone, username and
\* external_subscriber_id all absent or empty, for any lang, raises ValueError
\* and sends nothing; it sends a request only when one of the four is non-empty.
C2_NoIdentityNoRequest ==
    Called("create_subscriber") =>
        /\ (\A f \in IdentityFields : ~NonEmpty(call.args[f])) =>
               (outcome = Raise("ValueError") /\ ~Dispatched)
        /\ Dispatched => \E f \in IdentityFields : NonEmpty(call.args[f])

---------------------------------------------------------------------------
(* C3 *)

\* C3: when the transport answers with an ok status the call returns a
\* mapping: the parsed JSON body, or the empty mapping when the body is not
\* valid JSON or absent.
C3_OkReturnsMapping ==
    (Answered /\ TheResponse.ok) =>
        outcome = Return(Dict(ParsedMapping(TheResponse.body)))

---------------------------------------------------------------------------
(* C4 *)

\* The endpoint table: HTTP method and path of each endpoint method
RouteMethod(name) ==
    CASE name \in {"list_subscribers", "get_subscriber", "get_subscription"} -> "GET"
      [] name \in {"create_subscriber", "add_subscription"} -> "POST"
      [] name \in {"delete_subscriber", "delete_subscription",
                   "delete_all_subscriptions"} -> "DELETE"
      [] name \in {"unmanage_subscriber", "suspend_subscriptions",
                   "suspend_subscription", "convert_trial_subscription"} -> "PATCH"
      [] name = "replace_subscription" -> "PUT"

RoutePath(name, args) ==
    CASE name \in {"list_subscribers", "create_subscriber"} -> "/v1/subscribers"
      [] name \in {"get_subscriber", "delete_subscriber", "unmanage_subscriber"} ->
            "/v1/subscribers/" \o args["subscriber_id"][2]
      [] name \in {"add_subscription", "suspend_subscriptions",
                   "delete_all_subscriptions"} ->
            "/v1/subscribers/" \o args["subscriber_id"][2] \o "/subscriptions"
      [] name \in {"get_subscription", "delete_subscription", "suspend_subscription",
                   "convert_trial_subscription", "replace_subscription"} ->
            "/v1/subscribers/" \o args["subscriber_id"][2]
                \o "/subscriptions/" \o args["subscription_id"][2]

\* C4: the single request an endpoint method hands to the transport has the
\* HTTP method and the path (base URL + /v1/... with the identifiers
\* interpolated) the endpoint table gives for that method.
C4_RouteFidelity ==
    Dispatched =>
        /\ Len(sent) = 1
        /\ TheRequest.method = RouteMethod(call.name)
        /\ TheRequest.url = "https://msp.bitdefender.com" \o RoutePath(call.name, call.args)

C4_Witness ==
    /\ Called("delete_all_subscriptions")
    /\ Dispatched
    /\ TheRequest.method = "DELETE"
    /\ TheRequest.url = "https://msp.bitdefender.com/v1/subscribers/s1/subscriptions"

---------------------------------------------------------------------------
(* C5 *)

\* C5: the JSON body create_subscriber sends has as keys exactly the fields
\* among email, phone, username, external_subscriber_id, lang whose argument is
\* non-empty, each mapped to the argument's value.
C5_CreateBodyShape ==
    (Called("create_subscriber") /\ Dispatched) =>
        /\ DOMAIN TheRequest.kwargs = {"json"}
        /\ DOMAIN JsonBody = {f \in SubscriberFields : NonEmpty(call.args[f])}
        /\ \A f \in DOMAIN JsonBody : JsonBody[f] = call.args[f]

\* exactly one identity field populated, one of the others given as "": the
\* body holds only that field
C5_Witness ==
    /\ Called("create_subscriber")
    /\ Dispatched
    /\ call.args["email"] = PyStr("")
    /\ call.args["username"] = PyStr("")
    /\ call.args["phone"] = PyStr("555")
    /\ JsonBody = ("phone" :> PyStr("555"))

---------------------------------------------------------------------------
(* C6 *)

SubscriptionOptions == {"external_subscription_id", "reservation_id"}

\* C6 as stated: the body of add_subscription always holds product_id, holds
\* trial: true iff trial is true, and holds external_subscription_id /
\* reservation_id iff the respective argument was provided (is not None).
C6_AddBodyShape_Original ==
    (Called("add_subscription") /\ Dispatched) =>
        /\ DOMAIN JsonBody \subseteq {"product_id", "trial"} \cup SubscriptionOptions
        /\ "product_id" \in DOMAIN JsonBody
        /\ JsonBody["product_id"] = call.args["product_id"]
        /\ "trial" \in DOMAIN JsonBody <=> call.args["trial"] = True
        /\ "trial" \in DOMAIN JsonBody => JsonBody["trial"] = True
        /\ \A f \in SubscriptionOptions :
               /\ f \in DOMAIN JsonBody <=> call.args[f] # None
               /\ f \in DOMAIN JsonBody => JsonBody[f] = call.args[f]

\* C6, amended: the body of add_subscription always holds product_id with the
\* given value, holds trial: true iff trial is true, holds
\* external_subscription_id / reservation_id iff the respective argument is
\* non-empty (neither None nor ""), and holds no other key.
C6_AddBodyShape ==
    (Called("add_subscription") /\ Dispatched) =>
        /\ DOMAIN TheRequest.kwargs = {"json"}
        /\ DOMAIN JsonBody \subseteq {"product_id", "trial"} \cup SubscriptionOptions
        /\ "product_id" \in DOMAIN JsonBody
        /\ JsonBody["product_id"] = call.args["product_id"]
        /\ "trial" \in DOMAIN JsonBody <=> call.args["trial"] = True
        /\ "trial" \in DOMAIN JsonBody => JsonBody["trial"] = True
        /\ \A f \in SubscriptionOptions :
               /\ f \in DOMAIN JsonBody <=> NonEmpty(call.args[f])
               /\ f \in DOMAIN JsonBody => JsonBody[f] = call.args[f]

\* trial = False and an empty external_subscription_id: both keys are left out
C6_Witness ==
    /\ Called("add_subscription")
    /\ Dispatched
    /\ call.args["trial"] = False
    /\ call.args["external_subscription_id"] = PyStr("")
    /\ JsonBody = ("product_id" :> PyStr("p1")) @@ ("reservation_id" :> PyStr("r1"))

---------------------------------------------------------------------------
(* C7 *)

\* C7 as stated: convert_trial_subscription sends the single key convert,
\* whose value is product_id whenever product_id is given (is not None) and
\* true when it is None.
C7_ConvertBody_Original ==
    (Called("convert_trial_subscription") /\ Dispatched) =>
        /\ DOMAIN JsonBody = {"convert"}
        /\ JsonBody["convert"] =
               IF call.args["product_id"] # None THEN call.args["product_id"] ELSE True

\* C7, amended: convert_trial_subscription sends the single key convert, whose
\* value is product_id whenever product_id is non-empty, and true when
\* product_id is None or the empty string.
C7_ConvertBody ==
    (Called("convert_trial_subscription") /\ Dispatched) =>
        /\ DOMAIN TheRequest.kwargs = {"json"}
        /\ DOMAIN JsonBody = {"convert"}
        /\ JsonBody["convert"] =
               IF NonEmpty(call.args["product_id"]) THEN call.args["product_id"] ELSE True

\* product_id = "": the body is {convert: true}
C7_Witness ==
    /\ Called("convert_trial_subscription")
    /\ Dispatched
    /\ call.args["product_id"] = PyStr("")
    /\ JsonBody = ("convert" :> True)

---------------------------------------------------------------------------
(* C8 *)

\* C8: no retry.  Each call hands at most one request to the transport
\* (exactly one unless local validation fails, then none), so the requests
\* never outnumber the calls; a call that gets a non-ok response ends by
\* raising the API error without a further request.
C8_NoRetry ==
    /\ Len(sent) <= 1
    /\ requests <= calls
    /\ (calls > 0 /\ ~Dispatched) => outcome = Raise("ValueError")
    /\ (Answered /\ ~TheResponse.ok) =>
           (Len(sent) = 1 /\ outcome.kind = "raise" /\ outcome.exc = "BitdefenderMSPError")

---------------------------------------------------------------------------
(* C9 *)

\* C9: after construction with key k, api_key and the session's default
\* headers {Authorization: "ApiKey k", Content-Type: application/json,
\* Accept: application/json} stay as constructed through any sequence of
\* calls, and every request sent carries Authorization: ApiKey k.
C9_SessionFrame ==
    /\ api_key = key
    /\ DOMAIN session.headers = {"Authorization", "Content-Type", "Accept"}
    /\ session.headers["Authorization"] = "ApiKey " \o key
    /\ session.headers["Content-Type"] = "application/json"
    /\ session.headers["Accept"] = "application/json"
    /\ \A i \in 1..Len(sent) : sent[i].headers["Authorization"] = "ApiKey " \o key

\* a request sent, and answered with success, right after a call that raised
C9_Witness ==
    /\ calls = 2
    /\ errors = 1
    /\ key = "k2"
    /\ Dispatched
    /\ outcome.kind = "return"
    /\ TheRequest.headers["Authorization"] = "ApiKey k2"

---------------------------------------------------------------------------
(* C10 *)

\* C10: when the transport raises instead of returning a response, the call
\* ends with that same failure: it is not caught, not turned into
\* BitdefenderMSPError and not turned into a returned mapping.
C10_TransportFailurePropagates ==
    (received # <<>> /\ TheResponse.exc # "") =>
        /\ outcome = Raise(TheResponse.exc)
        /\ outcome.exc # "BitdefenderMSPError"

C10_Witness ==
    /\ received # <<>>
    /\ TheResponse.exc = "SSLError"
    /\ outcome.kind = "raise"
    /\ outcome.exc = "SSLError"

============================================================================
